---- MODULE Spec2Model ----
(***************************************************************************)
(* Session bridge of the Browser MCP server: the agent-socket slot of the  *)
(* Context, the connection handlers that write it, the socket message      *)
(* sender, and the tools/call front doors (line transport and HTTP /mcp).  *)
(*                                                                         *)
(* The repository holds two generations of the server factory and of the   *)
(* entry point; a run of the model is one deployment of one of them:       *)
(*   stdio_v1  src/src/server.ts          (line transport, no close hook)  *)
(*   stdio_v2  src/unnamed/part_000       (line transport, close hook)     *)
(*   http_v1   src/src/index.ts           (HTTP, a fresh Context per call) *)
(*   http_v2   src/unnamed/part_001       (HTTP, one shared Context)       *)
(***************************************************************************)
EXTENDS Integers, Sequences, FiniteSets, TLC

\* ------------------------------------------------------------------ bounds
MaxSockets == 2
MaxCalls == 2
MaxCloses == 2

Sockets == 1..MaxSockets
Calls == 1..MaxCalls
NoSocket == 0

Deployments == {"stdio_v1", "stdio_v2", "http_v1", "http_v2"}

\* The static registration list, in registration order.
snapshotTools ==
  << "browser_navigate", "browser_go_back", "browser_go_forward",
     "browser_snapshot", "browser_click", "browser_hover", "browser_type",
     "browser_select_option", "browser_press_key", "browser_wait",
     "browser_get_console_logs", "browser_screenshot" >>

ToolNames == { snapshotTools[i] : i \in 1..Len(snapshotTools) }

\* const resources: Resource[] = []
resources == << >>

\* The names of a list as they stand in a JSON answer, in list order.
RECURSIVE JoinNames(_)
JoinNames(names) ==
  IF names = << >> THEN ""
  ELSE IF Len(names) = 1 THEN names[1]
  ELSE names[1] \o "," \o JoinNames(Tail(names))

\* Faulty variant of ListTools: the tools spread in last are left out.
ListTools_short(tools) ==
  "tools:" \o JoinNames(SubSeq(tools, 1, Len(tools) - 2))

\* tools.map((tool) => tool.schema): one entry per registered tool.
ListTools(tools) ==
  "tools:" \o JoinNames(tools)

\* Inputs of a tools/call: a registered name, an unregistered one, and the
\* absent name ("" stands for a missing params.name: !name is true for both).
NameInputs == {"browser_navigate", "foo_bar", ""}
ArgInputs == {"https://example.com"}
\* Payloads the agent may put in a reply frame.
Payloads == {"p1"}

VARIABLES
  deploy,         \* which generation / transport this process runs
  readyState,     \* ws readyState of every agent socket
  ctx_ws,         \* Context._ws of the Context the websocket server fills
                  \* (NoSocket: undefined)
  closeObserver,  \* sockets that carry a "close" listener calling clearWs
  closeInstr,     \* sockets on which the program has called close()
  prev,           \* the open current socket a connection event found, if any
  wire,           \* frames the program has handed to ws.send, per socket
  rState,         \* tools/call k: "new", "handling", "done"
  rEp,            \* its entry point: "line" or "mcp"
  rName,          \* its params.name
  rNoConn,        \* hasWs() of its Context was false when it was issued
  rResp,          \* the response it was answered with
  cState,         \* the send of its handler: "new","pending","resolved","rejected"
  cResult,        \* what the send's promise settled with
  cTimer,         \* "none", "armed", "cleared", "fired"
  cSock,          \* the socket the sender was created for
  cWrite,         \* ws.send: "queued" (frame written, callback due), "failed"
                  \* (socket not open, error callback due), then "done" or
                  \* "refused" once the callback has run; "none" before
  cMsg,           \* the frame it serialised
  elapsed,        \* timeoutMs has passed since the send started
  reply,          \* the payload the agent sent back for this send, if any
  upgrade,        \* the last upgrade request on the HTTP server: its url (a
                  \* sequence of characters), what became of it, and how many
                  \* there have been
  closeCalls,     \* how often the server's close path has run Context.close()
  wssUp,          \* a WebSocketServer for agents is listening
  closeLog,       \* what the calls of server.close have closed, in order
  options,        \* createServerWithTools: which of options.websocketServer
                  \* and options.context the caller passed in
  proc,           \* the process: "running", "closing" (stdin has closed, the
                  \* watchdog timer is armed), "exit0", "exit1"
  qState,         \* the HTTP exchange in view: "idle", "handling", "done"
  qReq,           \* its request: route, verb and parsed body
  qResp,          \* what the server answered; lost: no agent socket was open
                  \* when the suspended handler resumed
  qSent           \* how many responses the server has written for it

connVars == << deploy, readyState, ctx_ws, closeObserver, closeInstr, prev >>
reqVars == << rState, rEp, rName, rNoConn, rResp >>
sendVars == << cState, cResult, cTimer, cSock, cWrite, cMsg, wire >>
envVars == << elapsed, reply, upgrade >>
lifeVars == << closeCalls, wssUp, closeLog, options, proc >>
frontVars == << qState, qReq, qResp, qSent >>
vars == << connVars, reqVars, sendVars, envVars, lifeVars, frontVars >>

NoResp == [kind |-> "none", code |-> 0, isError |-> FALSE, content |-> ""]
NoMsg == [type |-> "", payload |-> ""]

\* JSON values of a request body.  A field that is missing reads as
\* undefined; ids are written with their type: "n:0" is the number 0, "s:"
\* the empty string, "s:a" the string "a".
Absent == "<undefined>"
Null == "null"
NoParams == [present |-> FALSE, name |-> Absent, uri |-> Absent]
NoBody == [present |-> FALSE, jsonrpc |-> Absent, id |-> Absent,
           method |-> Absent, params |-> NoParams]
NoReq == [ep |-> "", verb |-> "", body |-> NoBody]
NoReply == [status |-> 0, id |-> Absent, kind |-> "none", code |-> 0,
            isError |-> FALSE, content |-> "", side |-> "none",
            lost |-> FALSE]

NoUpgrade == [url |-> << >>, outcome |-> "none", n |-> 0]

\* createMCPServer passes neither a websocket server nor a Context.
NoOptions == [websocketServer |-> FALSE, context |-> FALSE]

InitState ==
  /\ deploy \in Deployments
  /\ readyState = [s \in Sockets |-> "NONE"]
  /\ ctx_ws = NoSocket
  /\ closeObserver = {}
  /\ closeInstr = {}
  /\ prev = [s \in Sockets |-> NoSocket]
  /\ wire = [s \in Sockets |-> << >>]
  /\ rState = [k \in Calls |-> "new"]
  /\ rEp = [k \in Calls |-> "none"]
  /\ rName = [k \in Calls |-> ""]
  /\ rNoConn = [k \in Calls |-> FALSE]
  /\ rResp = [k \in Calls |-> NoResp]
  /\ cState = [k \in Calls |-> "new"]
  /\ cResult = [k \in Calls |-> "none"]
  /\ cTimer = [k \in Calls |-> "none"]
  /\ cSock = [k \in Calls |-> NoSocket]
  /\ cWrite = [k \in Calls |-> "none"]
  /\ cMsg = [k \in Calls |-> NoMsg]
  /\ elapsed = [k \in Calls |-> FALSE]
  /\ reply = [k \in Calls |-> "none"]
  /\ upgrade = NoUpgrade
  /\ closeCalls = 0
  /\ wssUp = (deploy # "http_v1")
  /\ closeLog = << >>
  /\ proc = "running"
  /\ qState = "idle"
  /\ qReq = NoReq
  /\ qResp = NoReply
  /\ qSent = 0

Init == InitState /\ options = NoOptions

\* ------------------------------------------------------------ the Context
\* Context.hasWs(): a current connection exists and its socket is open.
hasWs ==
  ctx_ws # NoSocket /\ readyState[ctx_ws] = "OPEN"

\* Context.clearWs(): forget the current socket.
clearWs ==
  ctx_ws' = NoSocket

\* WebSocket.close() as the handlers call it: an open socket starts its
\* closing handshake; on a socket that is closing or closed it does nothing.
wsClose(rs, s) ==
  IF rs[s] = "OPEN" THEN [rs EXCEPT ![s] = "CLOSING"] ELSE rs

\* ------------------------------------------------- connection handlers
\* Faulty variant of onConnection_v1: the new socket is never stored.
onConnection_v1_noInstall(s) ==
  /\ readyState' = IF hasWs
                     THEN wsClose([readyState EXCEPT ![s] = "OPEN"], ctx_ws)
                     ELSE [readyState EXCEPT ![s] = "OPEN"]
  /\ closeInstr' = IF hasWs THEN closeInstr \cup {ctx_ws} ELSE closeInstr
  /\ ctx_ws' = ctx_ws
  /\ closeObserver' = closeObserver

\* src/src/server.ts: close the open current socket, install the new one.
onConnection_v1(s) ==
  /\ readyState' = IF hasWs
                     THEN wsClose([readyState EXCEPT ![s] = "OPEN"], ctx_ws)
                     ELSE [readyState EXCEPT ![s] = "OPEN"]
  /\ closeInstr' = IF hasWs THEN closeInstr \cup {ctx_ws} ELSE closeInstr
  /\ ctx_ws' = s
  /\ closeObserver' = closeObserver

\* Faulty variant of handleConnection: the previous socket is left open.
handleConnection_noClose(s) ==
  /\ readyState' = [readyState EXCEPT ![s] = "OPEN"]
  /\ closeInstr' = closeInstr
  /\ ctx_ws' = s
  /\ closeObserver' = closeObserver \cup {s}

\* part_000: the same, and a close listener that clears the slot.
handleConnection(s) ==
  /\ readyState' = IF hasWs
                     THEN wsClose([readyState EXCEPT ![s] = "OPEN"], ctx_ws)
                     ELSE [readyState EXCEPT ![s] = "OPEN"]
  /\ closeInstr' = IF hasWs THEN closeInstr \cup {ctx_ws} ELSE closeInstr
  /\ ctx_ws' = s
  /\ closeObserver' = closeObserver \cup {s}

\* Faulty variant of onConnection_http: the previous socket is left open.
onConnection_http_noClose(s) ==
  /\ readyState' = [readyState EXCEPT ![s] = "OPEN"]
  /\ closeInstr' = closeInstr
  /\ ctx_ws' = s
  /\ closeObserver' = closeObserver \cup {s}

\* part_001: the HTTP server's listener (it also logs socket errors).
onConnection_http(s) ==
  /\ readyState' = IF hasWs
                     THEN wsClose([readyState EXCEPT ![s] = "OPEN"], ctx_ws)
                     ELSE [readyState EXCEPT ![s] = "OPEN"]
  /\ closeInstr' = IF hasWs THEN closeInstr \cup {ctx_ws} ELSE closeInstr
  /\ ctx_ws' = s
  /\ closeObserver' = closeObserver \cup {s}

\* The websocket server emits "connection" for the next agent socket.  The
\* HTTP entry point of src/src/index.ts starts no websocket server of its
\* own: there is one only once its /tools/call route has built an MCP server,
\* which listens with the handler of src/src/server.ts and fills that
\* server's own Context.  A websocket server that was closed accepts no
\* socket.
Accept(s) ==
  /\ wssUp
  /\ readyState[s] = "NONE"
  /\ \A t \in Sockets : t < s => readyState[t] # "NONE"
  /\ prev' = [prev EXCEPT ![s] =
                IF ctx_ws # NoSocket /\ readyState[ctx_ws] = "OPEN"
                  THEN ctx_ws ELSE NoSocket]
  /\ CASE deploy \in {"stdio_v1", "http_v1"} -> onConnection_v1(s)
       [] deploy = "stdio_v2" -> handleConnection(s)
       [] OTHER -> onConnection_http(s)
  /\ UNCHANGED << deploy, reqVars, sendVars, lifeVars, frontVars >>

Connect(s) == Accept(s) /\ UNCHANGED envVars

\* The socket's "close" event: the closing handshake ended, the agent went
\* away or the link was lost.  Its listener, where one was registered,
\* clears the slot.
SocketClosed(s) ==
  /\ readyState[s] \in {"OPEN", "CLOSING"}
  /\ readyState' = [readyState EXCEPT ![s] = "CLOSED"]
  /\ IF s \in closeObserver THEN clearWs ELSE ctx_ws' = ctx_ws
  /\ UNCHANGED << deploy, closeObserver, closeInstr, prev,
                  reqVars, sendVars, envVars, lifeVars, frontVars >>

ConnNext ==
  \E s \in Sockets : Connect(s) \/ SocketClosed(s)

\* ------------------------------------------------ socket message sender
\* createSocketMessageSender(ws).sendSocketMessage: serialise {type, payload},
\* arm the timer, hand the frame to ws.send.  ws.send on a socket that is not
\* open writes nothing and reports an error through its callback.
sendSocketMessage(k, ws, type, payload) ==
  /\ cState' = [cState EXCEPT ![k] = "pending"]
  /\ cMsg' = [cMsg EXCEPT ![k] = [type |-> type, payload |-> payload]]
  /\ cTimer' = [cTimer EXCEPT ![k] = "armed"]
  /\ cSock' = [cSock EXCEPT ![k] = ws]
  /\ IF readyState[ws] = "OPEN"
       THEN /\ wire' = [wire EXCEPT ![ws] =
                          Append(@, [type |-> type, payload |-> payload])]
            /\ cWrite' = [cWrite EXCEPT ![k] = "queued"]
       ELSE /\ wire' = wire
            /\ cWrite' = [cWrite EXCEPT ![k] = "failed"]
  /\ cResult' = cResult

\* Faulty variant of ContextSend: no guard, so the sender is made for an
\* undefined socket; its timer is armed before ws.send throws a TypeError.
ContextSend_noGuard(k, ws, type, payload) ==
  IF ws = NoSocket
    THEN /\ cState' = [cState EXCEPT ![k] = "rejected"]
         /\ cResult' = [cResult EXCEPT ![k] = "TypeError"]
         /\ cTimer' = [cTimer EXCEPT ![k] = "armed"]
         /\ UNCHANGED << cSock, cWrite, cMsg, wire >>
    ELSE sendSocketMessage(k, ws, type, payload)

\* Context.sendSocketMessage: fail at once with NoConnection when the Context
\* has no current socket, else send through a sender made for that socket.
ContextSend(k, ws, type, payload) ==
  IF ws = NoSocket
    THEN /\ cState' = [cState EXCEPT ![k] = "rejected"]
         /\ cResult' = [cResult EXCEPT ![k] = "NoConnection"]
         /\ UNCHANGED << cTimer, cSock, cWrite, cMsg, wire >>
    ELSE sendSocketMessage(k, ws, type, payload)

\* ---------------------------------------------------------- front doors
ToolResult(isError, content) ==
  [kind |-> "result", code |-> 0, isError |-> isError, content |-> content]

createJsonRpcError(code) ==
  [kind |-> "error", code |-> code, isError |-> FALSE, content |-> ""]

createJsonRpcSuccess(result) ==
  [kind |-> "result", code |-> 0, isError |-> result.isError,
   content |-> result.content]

\* "run the handler": the front door found nothing to answer by itself.
Handle == [kind |-> "handle", code |-> 0, isError |-> FALSE, content |-> ""]

\* The text of the line transport's answer for a name it does not know.
NotFoundText(name) == "Tool \"" \o name \o "\" not found"

\* Faulty variant of LineCallTool: no lookup, every name reaches a handler.
LineCallTool_noLookup(name) ==
  Handle

\* CallToolRequestSchema handler of the line transport, up to tool.handle.
LineCallTool(name) ==
  IF name \notin ToolNames THEN ToolResult(TRUE, NotFoundText(name)) ELSE Handle

\* Faulty variant of McpToolsCall: the agent is asked for before the name.
McpToolsCall_connFirst(name, has) ==
  IF ~has THEN createJsonRpcError(-32000)
  ELSE IF name = "" THEN createJsonRpcError(-32602)
  ELSE IF name \notin ToolNames THEN createJsonRpcError(-32601)
  ELSE Handle

\* Faulty variant of McpToolsCall: the agent is asked for before the tool is
\* looked up.
McpToolsCall_connBeforeLookup(name, has) ==
  IF name = "" THEN createJsonRpcError(-32602)
  ELSE IF ~has THEN createJsonRpcError(-32000)
  ELSE IF name \notin ToolNames THEN createJsonRpcError(-32601)
  ELSE Handle

\* /mcp "tools/call" of part_001, up to tool.handle.
McpToolsCall(name, has) ==
  IF name = "" THEN createJsonRpcError(-32602)
  ELSE IF name \notin ToolNames THEN createJsonRpcError(-32601)
  ELSE IF ~has THEN createJsonRpcError(-32000)
  ELSE Handle

\* /mcp "tools/call" of src/src/index.ts: no connection check; the handler
\* gets a Context made for this request.
McpToolsCall_v1(name) ==
  IF name = "" THEN createJsonRpcError(-32602)
  ELSE IF name \notin ToolNames THEN createJsonRpcError(-32601)
  ELSE Handle

FrontDoor(ep, name, has) ==
  CASE ep = "line" -> LineCallTool(name)
    [] ep = "mcp" /\ deploy = "http_v1" -> McpToolsCall_v1(name)
    [] OTHER -> McpToolsCall(name, has)

\* What the caller gets once tool.handle has returned or thrown.  A handler
\* builds its result from what its send resolved with; the line transport
\* turns a throw into an isError result carrying String(error), the HTTP
\* endpoints let it reach their catch block.
ToolHandleResult(value) ==
  ToolResult(FALSE, value)

\* String(error) of an Error whose message is msg.
ErrorString(msg) == "Error: " \o msg

\* Faulty variant of LineReturn: no try/catch around tool.handle, the throw
\* leaves the request handler.
LineReturn_noCatch(state, value) ==
  IF state = "resolved"
    THEN ToolHandleResult(value)
    ELSE [kind |-> "throw", code |-> 0, isError |-> FALSE, content |-> value]

LineReturn(state, value) ==
  IF state = "resolved"
    THEN ToolHandleResult(value)
    ELSE ToolResult(TRUE, ErrorString(value))

\* Faulty variant of HttpReturn: no catch block, the fault leaves the route
\* without an envelope.
HttpReturn_leak(state, value) ==
  IF state = "resolved"
    THEN createJsonRpcSuccess(ToolHandleResult(value))
    ELSE [kind |-> "throw", code |-> 0, isError |-> FALSE, content |-> value]

\* What an HTTP route answers once tool.handle has returned (res.json of the
\* success envelope) or thrown (its catch block: error -32603).
HttpReturn(state, value) ==
  IF state = "resolved"
    THEN createJsonRpcSuccess(ToolHandleResult(value))
    ELSE createJsonRpcError(-32603)

Return(ep, state, value) ==
  IF ep = "line" THEN LineReturn(state, value) ELSE HttpReturn(state, value)

EntryPoints ==
  IF deploy \in {"stdio_v1", "stdio_v2"} THEN {"line"} ELSE {"mcp"}

\* The socket slot of the Context a request's handler is given.
ContextWs ==
  IF deploy = "http_v1" THEN NoSocket ELSE ctx_ws

ContextHasWs ==
  IF deploy = "http_v1" THEN FALSE ELSE hasWs

\* A tools/call arrives.  Everything up to the handler's first suspension
\* runs in one turn: the front door's checks, then the handler, which sends
\* one message named after the tool.
ToolsCall(k, ep, name, args) ==
  /\ closeCalls = 0
  /\ rState[k] = "new"
  /\ \A j \in Calls : j < k => rState[j] # "new"
  /\ ep \in EntryPoints
  /\ rEp' = [rEp EXCEPT ![k] = ep]
  /\ rName' = [rName EXCEPT ![k] = name]
  /\ rNoConn' = [rNoConn EXCEPT ![k] = ~ContextHasWs]
  /\ LET d == FrontDoor(ep, name, ContextHasWs) IN
       IF d.kind # "handle"
         THEN /\ rState' = [rState EXCEPT ![k] = "done"]
              /\ rResp' = [rResp EXCEPT ![k] = d]
              /\ UNCHANGED sendVars
         ELSE /\ ContextSend(k, ContextWs, name, args)
              /\ rState' = [rState EXCEPT ![k] =
                              IF cState'[k] = "pending" THEN "handling" ELSE "done"]
              /\ rResp' = [rResp EXCEPT ![k] =
                             IF cState'[k] = "pending" THEN NoResp
                             ELSE Return(ep, cState'[k], cResult'[k])]
  /\ UNCHANGED << connVars, envVars, lifeVars, frontVars >>

\* Faulty variant of WriteCallback: the callback settles the send whatever
\* the timer has done before.
WriteCallback_late(k, err) ==
  /\ cWrite[k] \in {"queued", "failed"}
  /\ err <=> (cWrite[k] = "failed" \/ readyState[cSock[k]] = "CLOSED")
  /\ cWrite' = [cWrite EXCEPT ![k] = IF @ = "queued" THEN "done" ELSE "refused"]
  /\ cTimer' = [cTimer EXCEPT ![k] = IF @ = "armed" THEN "cleared" ELSE @]
  /\ cState' = [cState EXCEPT ![k] = IF err THEN "rejected" ELSE "resolved"]
  /\ cResult' = [cResult EXCEPT ![k] = IF err THEN "WriteError" ELSE "success"]
  /\ rState' = [rState EXCEPT ![k] = "done"]
  /\ rResp' = [rResp EXCEPT ![k] = Return(rEp[k], cState'[k], cResult'[k])]
  /\ UNCHANGED << connVars, rEp, rName, rNoConn, cSock, cMsg, wire,
                  envVars, lifeVars, frontVars >>

\* The callback of ws.send runs, with an error when the frame was refused or
\* the socket went away before the frame was flushed.  It cancels the timer
\* and settles the send, unless the timer settled it already.  The handler
\* then returns or throws and the front door answers.
WriteCallback(k, err) ==
  /\ cWrite[k] \in {"queued", "failed"}
  /\ err <=> (cWrite[k] = "failed" \/ readyState[cSock[k]] = "CLOSED")
  /\ cWrite' = [cWrite EXCEPT ![k] = IF @ = "queued" THEN "done" ELSE "refused"]
  /\ cTimer' = [cTimer EXCEPT ![k] = IF @ = "armed" THEN "cleared" ELSE @]
  /\ IF cState[k] = "pending"
       THEN /\ cState' = [cState EXCEPT ![k] = IF err THEN "rejected" ELSE "resolved"]
            /\ cResult' = [cResult EXCEPT ![k] = IF err THEN "WriteError" ELSE "success"]
            /\ rState' = [rState EXCEPT ![k] = "done"]
            /\ rResp' = [rResp EXCEPT ![k] = Return(rEp[k], cState'[k], cResult'[k])]
       ELSE UNCHANGED << cState, cResult, rState, rResp >>
  /\ UNCHANGED << connVars, rEp, rName, rNoConn, cSock, cMsg, wire,
                  envVars, lifeVars, frontVars >>

\* timeoutMs has passed since the send started.  A timer that is still armed
\* fires and rejects the send.
TimeoutElapses(k) ==
  /\ cTimer[k] # "none"
  /\ ~elapsed[k]
  /\ elapsed' = [elapsed EXCEPT ![k] = TRUE]
  /\ IF cTimer[k] = "armed"
       THEN /\ cTimer' = [cTimer EXCEPT ![k] = "fired"]
            /\ cState' = [cState EXCEPT ![k] = "rejected"]
            /\ cResult' = [cResult EXCEPT ![k] = "Timeout"]
            /\ rState' = [rState EXCEPT ![k] = "done"]
            /\ rResp' = [rResp EXCEPT ![k] = Return(rEp[k], "rejected", "Timeout")]
       ELSE UNCHANGED << cTimer, cState, cResult, rState, rResp >>
  /\ UNCHANGED << connVars, rEp, rName, rNoConn, cSock, cWrite, cMsg, wire,
                  reply, upgrade, lifeVars, frontVars >>

\* The agent answers the frame of send k on the socket it came in on.  No
\* listener for inbound frames is registered on any socket, so the frame
\* changes nothing in the program.
AgentReply(k, p) ==
  /\ cWrite[k] \in {"queued", "done"}
  /\ readyState[cSock[k]] = "OPEN"
  /\ reply[k] = "none"
  /\ reply' = [reply EXCEPT ![k] = p]
  /\ UNCHANGED << connVars, reqVars, sendVars, elapsed, upgrade, lifeVars,
                  frontVars >>

CallNext ==
  \/ \E k \in Calls, ep \in {"line", "mcp"},
        name \in NameInputs, args \in ArgInputs : ToolsCall(k, ep, name, args)
  \/ \E k \in Calls, err \in BOOLEAN : WriteCallback(k, err)
  \/ \E k \in Calls : TimeoutElapses(k)
  \/ \E k \in Calls, p \in Payloads : AgentReply(k, p)

Next == ConnNext \/ CallNext

Spec == Init /\ [][Next]_vars

\* ------------------------------------------------------------- shutdown
\* Context.close(): close the current socket if there is one.  The timeout
\* of a send is a local of that send (setTimeout inside the promise of
\* sendSocketMessage); no handle to it is kept anywhere else.
ContextClose ==
  /\ readyState' = IF ctx_ws # NoSocket THEN wsClose(readyState, ctx_ws)
                                         ELSE readyState
  /\ closeInstr' = IF hasWs THEN closeInstr \cup {ctx_ws} ELSE closeInstr
  /\ ctx_ws' = ctx_ws

\* src/src/server.ts: server.close is replaced by a function whose first
\* statement calls server.close, which by then is that function itself.  The
\* calls nest until the stack is full; the RangeError rejects every one of
\* them, and neither the protocol server's own close nor wss.close nor
\* context.close is reached: nothing is closed and the server is as before.
serverClose_v1 ==
  /\ deploy = "stdio_v1"
  /\ Len(closeLog) < MaxCloses
  /\ closeLog' = closeLog \o << "RangeError" >>
  /\ UNCHANGED << connVars, reqVars, sendVars, envVars, closeCalls, wssUp,
                  options, proc, frontVars >>

\* Faulty variant of serverClose: everything is closed, whoever made it.
serverClose_all ==
  /\ deploy = "stdio_v2"
  /\ closeCalls < MaxCloses
  /\ closeCalls' = closeCalls + 1
  /\ closeLog' = closeLog \o << "mcp", "wss", "context" >>
  /\ wssUp' = FALSE
  /\ ContextClose
  /\ UNCHANGED << deploy, closeObserver, prev, reqVars, sendVars, envVars,
                  options, proc, frontVars >>

\* part_000: server.close of the line transport: the protocol server's own
\* close (bound before the replacement), then the websocket server unless
\* it was passed in, then the Context unless it was passed in.
serverClose ==
  /\ deploy = "stdio_v2"
  /\ closeCalls < MaxCloses
  /\ closeCalls' = closeCalls + 1
  /\ closeLog' = closeLog \o << "mcp" >>
                   \o (IF options.websocketServer THEN << >> ELSE << "wss" >>)
                   \o (IF options.context THEN << >> ELSE << "context" >>)
  /\ wssUp' = IF options.websocketServer THEN wssUp ELSE FALSE
  /\ IF options.context
       THEN UNCHANGED << readyState, closeInstr, ctx_ws >>
       ELSE ContextClose
  /\ UNCHANGED << deploy, closeObserver, prev, reqVars, sendVars, envVars,
                  options, proc, frontVars >>

\* part_001: the "close" listener of the HTTP server: the websocket server,
\* then the shared Context.
httpServerOnClose ==
  /\ deploy = "http_v2"
  /\ closeCalls < MaxCloses
  /\ closeCalls' = closeCalls + 1
  /\ closeLog' = closeLog \o << "wss", "context" >>
  /\ wssUp' = FALSE
  /\ ContextClose
  /\ UNCHANGED << deploy, closeObserver, prev, reqVars, sendVars, envVars,
                  options, proc, frontVars >>

CloseNext == serverClose_v1 \/ serverClose \/ httpServerOnClose

CloseSpec == Init /\ [][Next \/ CloseNext]_vars

\* ------------------------------------------------------ the exit watchdog
\* process.stdin "close": the listener arms the 15 s timer and calls
\* server.close().
StdinClose ==
  /\ deploy \in {"stdio_v1", "stdio_v2"}
  /\ proc = "running"
  /\ proc' = "closing"
  /\ UNCHANGED << connVars, reqVars, sendVars, envVars, closeCalls, wssUp,
                  closeLog, options, frontVars >>

\* await server.close() has returned: process.exit(0).
ExitAfterClose ==
  /\ proc = "closing"
  /\ closeCalls > 0
  /\ proc' = "exit0"
  /\ UNCHANGED << connVars, reqVars, sendVars, envVars, closeCalls, wssUp,
                  closeLog, options, frontVars >>

\* await server.close() has thrown: the async listener's promise rejects and
\* nobody handles it.  A runtime that turns an unhandled rejection into an
\* uncaught exception ends the process with code 1; one that only warns
\* leaves it to the timer.
UnhandledRejection ==
  /\ proc = "closing"
  /\ closeLog # << >>
  /\ closeLog[Len(closeLog)] = "RangeError"
  /\ proc' = "exit1"
  /\ UNCHANGED << connVars, reqVars, sendVars, envVars, closeCalls, wssUp,
                  closeLog, options, frontVars >>

\* The watchdog timer fires: process.exit(0).
WatchdogFires ==
  /\ proc = "closing"
  /\ proc' = "exit0"
  /\ UNCHANGED << connVars, reqVars, sendVars, envVars, closeCalls, wssUp,
                  closeLog, options, frontVars >>

WatchdogInit == Init /\ deploy \in {"stdio_v1", "stdio_v2"}

\* The listener calls server.close() once, right after arming the timer; the
\* call may never return (wss.close waits for the agent's connection to
\* end).  Agent sockets come and go until the process has exited.
WatchdogNext ==
  \/ proc \in {"running", "closing"} /\ ConnNext
  \/ StdinClose
  \/ proc = "closing" /\ closeLog = << >> /\ (serverClose \/ serverClose_v1)
  \/ ExitAfterClose
  \/ UnhandledRejection
  \/ WatchdogFires

\* A timer that is armed fires unless the process exits before.
WatchdogFairness == WF_vars(WatchdogFires)

WatchdogSpec == WatchdogInit /\ [][WatchdogNext]_vars /\ WatchdogFairness

\* ------------------------------------------- upgrade requests (src/src/ws.ts)
MaxUpgrades == 3

\* The path the websocket server of startHTTPServer is configured with.
WsPath == << "/", "w", "s" >>

\* Urls of upgrade requests, as sequences of characters: /ws, /ws?t=1, /ws?,
\* /, /wsx, /ws/, /x?/ws, ?/ws and a request without a url.
UrlInputs ==
  { << "/", "w", "s" >>,
    << "/", "w", "s", "?", "t", "=", "1" >>,
    << "/", "w", "s", "?" >>,
    << "/" >>,
    << "/", "w", "s", "x" >>,
    << "/", "w", "s", "/" >>,
    << "/", "x", "?", "/", "w", "s" >>,
    << "?", "/", "w", "s" >>,
    << >> }

\* url.split("?")[0]
RECURSIVE BeforeQuery(_)
BeforeQuery(url) ==
  IF url = << >> \/ Head(url) = "?"
    THEN << >>
    ELSE << Head(url) >> \o BeforeQuery(Tail(url))

\* request.url ? request.url.split("?")[0] : "/"
UrlPath(url) == IF url = << >> THEN << "/" >> ELSE BeforeQuery(url)

\* Faulty variant of handleUpgrade: the url only has to start with the path.
handleUpgrade_prefix(url, path) ==
  IF Len(url) >= Len(path) /\ SubSeq(url, 1, Len(path)) = path
    THEN "connection"
    ELSE "destroyed"

\* handleUpgrade of createWebSocketServer({ server, path }): a request for
\* another path has its socket destroyed; otherwise the handshake is
\* completed and "connection" is emitted.
handleUpgrade(url, path) ==
  IF UrlPath(url) # path THEN "destroyed" ELSE "connection"

\* The HTTP server of part_001 gets an upgrade request: handleUpgrade
\* either destroys the request's socket, and nothing else happens, or
\* completes the handshake, and the connection listener runs for the new
\* agent socket s.
Upgrade(s, url) ==
  /\ deploy = "http_v2"
  /\ wssUp
  /\ upgrade.n < MaxUpgrades
  /\ upgrade' = [url |-> url, outcome |-> handleUpgrade(url, WsPath),
                 n |-> upgrade.n + 1]
  /\ IF handleUpgrade(url, WsPath) = "connection"
       THEN Accept(s)
       ELSE UNCHANGED << connVars, reqVars, sendVars, lifeVars, frontVars >>
  /\ UNCHANGED << elapsed, reply >>

UpgradeInit == Init /\ deploy = "http_v2"

UpgradeNext ==
  \/ \E s \in Sockets, url \in UrlInputs : Upgrade(s, url)
  \/ \E s \in Sockets : SocketClosed(s)

UpgradeSpec == UpgradeInit /\ [][UpgradeNext]_vars

\* createServerWithTools of part_000 called with any of its options: agent
\* sockets come and go and server.close is called.
OptionInputs == [websocketServer : BOOLEAN, context : BOOLEAN]

OwnInit == InitState /\ deploy = "stdio_v2" /\ options \in OptionInputs

OwnNext == ConnNext \/ serverClose

OwnSpec == OwnInit /\ [][OwnNext]_vars

\* ------------------------------------------------------ HTTP front door
\* Request bodies a client may post.
TagInputs == {"2.0", "1.0", Absent}
IdInputs == {"n:0", "n:1", "s:", "s:a", Null, Absent}
MethodInputs == {"initialize", "tools/list", "tools/call", "ping",
                 "notifications/initialized", "foo/bar", "resources/list",
                 Absent}
ParamInputs ==
  {NoParams} \cup [present : {TRUE},
                   name : {Absent, "", "browser_navigate", "foo_bar"},
                   uri : {Absent}]
Bodies ==
  {NoBody} \cup [present : {TRUE}, jsonrpc : TagInputs, id : IdInputs,
                 method : MethodInputs, params : ParamInputs]
Verbs == {"POST", "GET", "OPTIONS", "DELETE"}
Routes == {"/mcp", "/tools/list", "/tools/call", "/health"}
\* Only /mcp takes every verb, and only a POST has its body read.
RouteVerbs(ep) ==
  CASE ep = "/mcp" -> Verbs
    [] ep = "/health" -> {"GET"}
    [] OTHER -> {"POST"}
\* The routes a request can come in on: none while an exchange is in view.
OpenRoutes == IF qState = "idle" THEN Routes ELSE {}
VerbBodies(verb) == IF verb = "POST" THEN Bodies ELSE {NoBody}

\* x || null
OrNull(x) == IF x \in {"n:0", "s:", Null, Absent} THEN Null ELSE x

\* res.status(status).json(envelope with this id)
Respond(status, id, r) ==
  [status |-> status, id |-> id, kind |-> r.kind, code |-> r.code,
   isError |-> r.isError, content |-> r.content, side |-> "none",
   lost |-> FALSE]

\* A result payload that is built without the Context.
StaticResult(tag) == [isError |-> FALSE, content |-> tag]

\* A reply without a JSON-RPC envelope: an empty body or the capabilities.
Plain(kind) == [kind |-> kind, code |-> 0, isError |-> FALSE, content |-> ""]

\* const { name } = request.params || {}
ParamsName(params) == IF params.present THEN params.name ELSE Absent

ToolsCallStatus(code) ==
  CASE code = -32602 -> 400
    [] code = -32601 -> 404
    [] code = -32000 -> 503
    [] OTHER -> 200

\* The "tools/call" case, up to tool.handle.  src/src/index.ts constructs a
\* Context for the request before it calls the handler.
ToolsCallCase(body, has) ==
  LET name == ParamsName(body.params)
      n == IF name = Absent THEN "" ELSE name
      d == IF deploy = "http_v1" THEN McpToolsCall_v1(n)
                                 ELSE McpToolsCall(n, has)
  IN  IF d.kind = "handle"
        THEN [Respond(0, body.id, Handle) EXCEPT
                !.side = IF deploy = "http_v1" THEN "new Context" ELSE "none"]
        ELSE Respond(ToolsCallStatus(d.code), body.id, d)

\* Faulty variant of McpDefault: an unknown method is called an invalid
\* request.
McpDefault_invalid(body) ==
  Respond(400, body.id, createJsonRpcError(-32600))

\* The default branch of the switch over request.method.
McpDefault(body) ==
  Respond(404, body.id, createJsonRpcError(-32601))

\* Faulty variant of McpInitialized: the notification is answered like a
\* request.
McpInitialized_acked(body) ==
  Respond(200, body.id, createJsonRpcSuccess(StaticResult("{}")))

\* case "notifications/initialized": res.status(204).end()
McpInitialized(body) ==
  Respond(204, Absent, Plain("empty"))

\* Faulty variant of McpPost: tools/list asks for the agent first.
McpPost_strict(body, has) ==
  IF ~body.present \/ body.jsonrpc # "2.0"
    THEN Respond(400, OrNull(body.id), createJsonRpcError(-32600))
  ELSE CASE body.method = "initialize" ->
              Respond(200, body.id,
                      createJsonRpcSuccess(StaticResult("initialize")))
         [] body.method = "tools/list" ->
              IF has
                THEN Respond(200, body.id,
                             createJsonRpcSuccess(StaticResult(ListTools(snapshotTools))))
                ELSE Respond(503, body.id, createJsonRpcError(-32000))
         [] body.method = "tools/call" -> ToolsCallCase(body, has)
         [] body.method = "ping" ->
              Respond(200, body.id, createJsonRpcSuccess(StaticResult("{}")))
         [] body.method = "notifications/initialized" -> McpInitialized(body)
         [] OTHER -> McpDefault(body)

\* POST /mcp: the envelope check and the switch over request.method.
McpPost(body, has) ==
  IF ~body.present \/ body.jsonrpc # "2.0"
    THEN Respond(400, OrNull(body.id), createJsonRpcError(-32600))
  ELSE CASE body.method = "initialize" ->
              Respond(200, body.id,
                      createJsonRpcSuccess(StaticResult("initialize")))
         [] body.method = "tools/list" ->
              Respond(200, body.id,
                      createJsonRpcSuccess(StaticResult(ListTools(snapshotTools))))
         [] body.method = "tools/call" -> ToolsCallCase(body, has)
         [] body.method = "ping" ->
              Respond(200, body.id, createJsonRpcSuccess(StaticResult("{}")))
         [] body.method = "notifications/initialized" -> McpInitialized(body)
         [] OTHER -> McpDefault(body)

\* app.all('/mcp'): preflight, capabilities, JSON-RPC, anything else.
McpAll(verb, body, has) ==
  CASE verb = "OPTIONS" -> Respond(200, Absent, Plain("empty"))
    [] verb = "GET" -> Respond(200, Absent, Plain("capabilities"))
    [] verb = "POST" -> McpPost(body, has)
    [] OTHER -> Respond(405, Null, createJsonRpcError(-32600))

\* POST /tools/list
ToolsListPost(body) ==
  IF ~body.present \/ body.jsonrpc # "2.0" \/ body.method # "tools/list"
    THEN Respond(400, OrNull(body.id), createJsonRpcError(-32600))
    ELSE Respond(200, body.id, createJsonRpcSuccess(StaticResult(ListTools(snapshotTools))))

\* POST /tools/call.  The older entry point builds a whole MCP server for
\* the request once the name is there, before it looks the tool up.
ToolsCallPost(body, has) ==
  IF ~body.present \/ body.jsonrpc # "2.0" \/ body.method # "tools/call"
    THEN Respond(400, OrNull(body.id), createJsonRpcError(-32600))
    ELSE [ToolsCallCase(body, has) EXCEPT
            !.side = IF deploy = "http_v1"
                          /\ ParamsName(body.params) \notin {Absent, ""}
                       THEN "createMCPServer" ELSE @]

\* The connection field of the health report.
HealthText(has) ==
  "websocket_connected:" \o (IF has THEN "true" ELSE "false")

\* app.get('/health'): the report of part_001 ends with websocket_connected:
\* context.hasWs(); the report of src/src/index.ts has no such field.
HealthGet(has) ==
  Respond(200, Absent,
          [Plain("health") EXCEPT
             !.content = IF deploy = "http_v1" THEN "" ELSE HealthText(has)])

Route(ep, verb, body, has) ==
  CASE ep = "/mcp" -> McpAll(verb, body, has)
    [] ep = "/tools/list" -> ToolsListPost(body)
    [] ep = "/health" -> HealthGet(has)
    [] OTHER -> ToolsCallPost(body, has)

\* The catch block of a route: HTTP 500, error -32603, id req.body?.id || null.
CatchReply(body, side) ==
  [Respond(500, OrNull(body.id), HttpReturn("rejected", "")) EXCEPT
     !.side = side]

\* An HTTP request arrives and runs up to its answer or up to the first
\* suspension of its tool handler.  A handler that is given a Context with
\* no socket fails in the same turn and the route's catch block answers.
HttpRequest(ep, verb, body) ==
  /\ deploy \in {"http_v1", "http_v2"}
  /\ closeCalls = 0
  /\ qState = "idle"
  /\ qReq' = [ep |-> ep, verb |-> verb, body |-> body]
  /\ LET r == Route(ep, verb, body, ContextHasWs) IN
       IF r.kind # "handle"
         THEN qState' = "done" /\ qResp' = r
       ELSE IF ContextWs = NoSocket
         THEN qState' = "done" /\ qResp' = CatchReply(body, r.side)
       ELSE qState' = "handling" /\ qResp' = [NoReply EXCEPT !.side = r.side]
  /\ qSent' = IF qState' = "done" THEN 1 ELSE 0
  /\ wssUp' = (wssUp \/ Route(ep, verb, body, ContextHasWs).side = "createMCPServer")
  /\ UNCHANGED << connVars, reqVars, sendVars, envVars, closeCalls, closeLog,
                  options, proc >>

\* A body that express.json() cannot parse.
BadJson == [NoBody EXCEPT !.method = "<unparseable>"]

\* A POST whose body is not JSON never reaches its route: the body parser
\* passes its error on and the global error handler answers.
GlobalErrorHandler(ep) ==
  /\ deploy \in {"http_v1", "http_v2"}
  /\ closeCalls = 0
  /\ qState = "idle"
  /\ qReq' = [ep |-> ep, verb |-> "POST", body |-> BadJson]
  /\ qResp' = Respond(500, Null, createJsonRpcError(-32603))
  /\ qState' = "done"
  /\ qSent' = 1
  /\ UNCHANGED << connVars, reqVars, sendVars, envVars, lifeVars >>

\* Faulty variant of ResponsesAfterHandle: a statement after res.json throws
\* inside the try block and the catch block answers once more.
ResponsesAfterHandle_catchAgain(state) ==
  IF state = "resolved" THEN 2 ELSE 1

\* How many responses a route writes once tool.handle has settled: res.json
\* of the result as the last statement of the try block, or the one
\* res.status(500).json of the catch block.
ResponsesAfterHandle(state) == 1

\* The handler's send settles: the route answers with the tool result, or
\* its catch block answers.
HandlerSettles(state, value) ==
  /\ qState = "handling"
  /\ qState' = "done"
  /\ qResp' = [IF state = "resolved"
                 THEN [Respond(200, qReq.body.id, HttpReturn(state, value))
                         EXCEPT !.side = qResp.side]
                 ELSE CatchReply(qReq.body, qResp.side)
                EXCEPT !.lost = ~hasWs]
  /\ qSent' = qSent + ResponsesAfterHandle(state)
  /\ UNCHANGED << connVars, reqVars, sendVars, envVars, lifeVars, qReq >>

\* The client has its answer; the next exchange comes into view.
ResponseDelivered ==
  /\ qState = "done"
  /\ qState' = "idle"
  /\ qReq' = NoReq
  /\ qResp' = NoReply
  /\ qSent' = 0
  /\ UNCHANGED << connVars, reqVars, sendVars, envVars, lifeVars >>

\* ------------------------------------------ line transport, other methods
\* Uris a client may ask to read.
UriInputs == {"browser://console", ""}

LineBody(method, name, uri) ==
  [present |-> TRUE, jsonrpc |-> "2.0", id |-> "n:1", method |-> method,
   params |-> [present |-> TRUE, name |-> name, uri |-> uri]]

\* ListToolsRequestSchema handler
LineListTools ==
  createJsonRpcSuccess(StaticResult(ListTools(snapshotTools)))

\* ListResourcesRequestSchema handler
LineListResources ==
  createJsonRpcSuccess(StaticResult("resources:" \o JoinNames(resources)))

\* Faulty variant of LineReadResource: an unknown uri is an error.
LineReadResource_strict(uri) ==
  IF \A i \in 1..Len(resources) : resources[i] # uri
    THEN createJsonRpcError(-32602)
    ELSE Handle

\* ReadResourceRequestSchema handler, up to resource.read: find the
\* resource by its uri; without one the contents are empty.
LineReadResource(uri) ==
  IF \A i \in 1..Len(resources) : resources[i] # uri
    THEN createJsonRpcSuccess(StaticResult("contents:"))
    ELSE Handle

LineHandler(method, uri) ==
  CASE method = "tools/list" -> LineListTools
    [] method = "resources/list" -> LineListResources
    [] OTHER -> LineReadResource(uri)

\* A request for one of these methods arrives on the line transport and is
\* answered in the same turn.
LineRequest(method, uri) ==
  /\ deploy \in {"stdio_v1", "stdio_v2"}
  /\ closeCalls = 0
  /\ qState = "idle"
  /\ method = "resources/read" \/ uri = Absent
  /\ LineHandler(method, uri).kind # "handle"
  /\ qReq' = [ep |-> "line", verb |-> "", body |-> LineBody(method, Absent, uri)]
  /\ qResp' = Respond(0, "n:1", LineHandler(method, uri))
  /\ qState' = "done"
  /\ qSent' = 1
  /\ UNCHANGED << connVars, reqVars, sendVars, envVars, lifeVars >>

FrontInit == Init

FrontNext ==
  \/ ConnNext
  \/ \E ep \in OpenRoutes : \E verb \in RouteVerbs(ep) :
       \E body \in VerbBodies(verb) : HttpRequest(ep, verb, body)
  \/ \E state \in {"resolved", "rejected"}, value \in {"success"} :
       HandlerSettles(state, value)
  \/ ResponseDelivered
  \/ (\E ep \in OpenRoutes \ {"/health"} : GlobalErrorHandler(ep))
  \/ \E method \in {"tools/list", "resources/list", "resources/read"},
        uri \in UriInputs \cup {Absent} : LineRequest(method, uri)

FrontSpec == FrontInit /\ [][FrontNext]_vars

\* A suspended handler is resumed: its send settles with the callback of
\* ws.send or, at the latest, with its timer.
FrontFairness ==
  WF_vars(\E state \in {"resolved", "rejected"}, value \in {"success"} :
            HandlerSettles(state, value))

FrontFairSpec == FrontSpec /\ FrontFairness

TypeOK ==
  /\ deploy \in Deployments
  /\ readyState \in [Sockets -> {"NONE", "OPEN", "CLOSING", "CLOSED"}]
  /\ ctx_ws \in Sockets \cup {NoSocket}
  /\ cState \in [Calls -> {"new", "pending", "resolved", "rejected"}]
  /\ cTimer \in [Calls -> {"none", "armed", "cleared", "fired"}]
  /\ cWrite \in [Calls -> {"none", "queued", "failed", "done", "refused"}]
  /\ closeCalls \in 0..MaxCloses
  /\ wssUp \in BOOLEAN
  /\ qSent \in 0..2
  /\ closeLog \in Seq({"mcp", "wss", "context", "RangeError"})
  /\ options \in OptionInputs
  /\ proc \in {"running", "closing", "exit0", "exit1"}
  /\ upgrade \in [url : UrlInputs, outcome : {"none", "connection", "destroyed"},
                  n : 0..MaxUpgrades]
  /\ qState \in {"idle", "handling", "done"}

\* ------------------------------------------------------------ properties
\* The frame of send k reached the socket while it was open.
Written(k) == cWrite[k] \in {"queued", "done"}

\* C1: at most one socket is the current connection, and a socket that was
\* the open current connection when another one connected has been told to
\* close, is no longer open and is never current again.
C1_SingleCurrent ==
  /\ Cardinality({s \in Sockets : ctx_ws = s}) <= 1
  /\ \A s \in Sockets :
       prev[s] # NoSocket =>
         /\ prev[s] \in closeInstr
         /\ readyState[prev[s]] # "OPEN"
         /\ ctx_ws # prev[s]

C1_Witness ==
  \E s \in Sockets :
    /\ prev[s] # NoSocket
    /\ ctx_ws = s
    /\ readyState[s] = "OPEN"
    /\ readyState[prev[s]] = "CLOSING"

\* C2: once an inbound frame of a socket that replaced an open current
\* socket has arrived, the replaced socket has already been told to close.
C2_CloseBeforeFirstFrame ==
  \A k \in Calls :
    (reply[k] # "none" /\ prev[cSock[k]] # NoSocket) =>
      prev[cSock[k]] \in closeInstr

C2_Witness ==
  \E k \in Calls :
    /\ reply[k] # "none"
    /\ prev[cSock[k]] # NoSocket
    /\ ctx_ws = cSock[k]

\* C3: hasWs() is true exactly when the slot holds a socket and that socket
\* is open; a connection event makes it true for the new socket, the close
\* event of the current socket makes it false, and only a connection event
\* turns it from false to true.
C3_HasWsIffOpenCurrent ==
  [][ /\ hasWs' <=> (\E s \in Sockets : ctx_ws' = s /\ readyState'[s] = "OPEN")
      /\ \A s \in Sockets :
           (readyState[s] = "NONE" /\ readyState'[s] # "NONE") =>
             (hasWs' /\ ctx_ws' = s)
      /\ \A s \in Sockets :
           (ctx_ws = s /\ readyState[s] # "CLOSED" /\ readyState'[s] = "CLOSED")
             => ~hasWs'
      /\ (~hasWs /\ hasWs') =>
           \E s \in Sockets : readyState[s] = "NONE" /\ readyState'[s] = "OPEN"
    ]_vars

C3_Witness ==
  \E s \in Sockets : ctx_ws = s /\ readyState[s] = "CLOSED" /\ ~hasWs

\* C4: a call of a registered tool issued while hasWs() is false is answered
\* with the no-connection failure (error -32000 over HTTP, an isError result
\* naming NoConnection on the line transport) and hands nothing to ws.send.
C4_NoConnectionAnswer ==
  \A k \in Calls :
    (rState[k] = "done" /\ rNoConn[k] /\ rName[k] \in ToolNames) =>
      /\ cWrite[k] = "none"
      /\ IF rEp[k] = "line"
           THEN rResp[k].isError
                /\ rResp[k].content = ErrorString("NoConnection")
           ELSE rResp[k].kind = "error" /\ rResp[k].code = -32000

\* C5: a send resolves only with the payload of the reply to it, so not
\* before that reply has arrived and with no other value.
C5_ResolvesWithReplyPayload ==
  \A k \in Calls :
    cState[k] = "resolved" => (reply[k] # "none" /\ cResult[k] = reply[k])

\* C6: a send whose timeout has elapsed without a reply has failed with
\* Timeout.
C6_TimeoutWithoutReply ==
  \A k \in Calls :
    (elapsed[k] /\ reply[k] = "none") =>
      (cState[k] = "rejected" /\ cResult[k] = "Timeout")

\* C7: a send that was written to a socket which closed before any reply
\* came (and before its timeout) is not resolved with a success value: it
\* has failed, or is about to fail when its write callback runs.
C7_CloseFailsPendingSends ==
  \A k \in Calls :
    (Written(k) /\ readyState[cSock[k]] = "CLOSED"
       /\ reply[k] = "none" /\ ~elapsed[k]) =>
      \/ cState[k] = "rejected"
      \/ cState[k] = "pending" /\ cWrite[k] = "queued"

\* C8: the reply to send k, arriving while k has not failed, resolves k with
\* its payload and changes the outcome of no other send.
C8_ReplyResolvesItsOwnCall ==
  [][ \A k \in Calls :
        (reply[k] = "none" /\ reply'[k] # "none" /\ cState[k] # "rejected") =>
          /\ cState'[k] = "resolved"
          /\ cResult'[k] = reply'[k]
          /\ \A j \in Calls \ {k} :
               cState'[j] = cState[j] /\ cResult'[j] = cResult[j]
    ]_vars

\* C9: two different sends never put the same frame on the wire: each frame
\* carries an identifier no other send has used.
C9_FramesCarryFreshIdentifiers ==
  \A j, k \in Calls :
    (j # k /\ cWrite[j] # "none" /\ cWrite[k] # "none") => cMsg[j] # cMsg[k]

\* C10: a send started while the Context holds no socket fails in the same
\* step with NoConnection, arms no timer, serialises no frame and hands
\* nothing to ws.send.
C10_NoConnectionFailsAtOnce ==
  [][ \A k \in Calls :
        (cState[k] = "new" /\ cState'[k] # "new" /\ ContextWs = NoSocket) =>
          /\ cState'[k] = "rejected"
          /\ cResult'[k] = "NoConnection"
          /\ cTimer'[k] = "none"
          /\ cWrite'[k] = "none"
          /\ cMsg'[k] = NoMsg
          /\ wire' = wire
    ]_vars

C10_Witness ==
  \E k \in Calls :
    /\ cState[k] = "rejected"
    /\ cResult[k] = "NoConnection"
    /\ rEp[k] = "line"
    /\ \E j \in Calls : cState[j] = "resolved"

\* C11: a send that has settled did so by one of three paths: its reply
\* arrived and resolved it, its timeout fired, or its connection was lost.
C11_ThreeTerminationPaths ==
  \A k \in Calls :
    (cSock[k] # NoSocket /\ cState[k] \in {"resolved", "rejected"}) =>
      \/ cState[k] = "resolved" /\ reply[k] # "none"
      \/ cState[k] = "rejected" /\ cResult[k] = "Timeout" /\ cTimer[k] = "fired"
      \/ cState[k] = "rejected" /\ readyState[cSock[k]] # "OPEN"

\* The scheduling the runtime guarantees: a timer that is due fires and a
\* write callback that is due runs.
Fairness ==
  \A k \in Calls :
    /\ WF_vars(TimeoutElapses(k))
    /\ WF_vars(\E err \in BOOLEAN : WriteCallback(k, err))

FairSpec == Spec /\ Fairness

\* No send stays pending forever.
EventuallySettles ==
  \A k \in Calls : (cState[k] = "pending") ~> (cState[k] # "pending")

\* C12: Context.close() leaves the current socket closing or closed and no
\* send timer armed; run with no open current socket (a second time, or
\* with no connection) it changes no socket, no slot and no send.
C12_CloseCancelsAndIsIdempotent ==
  [][ closeCalls' # closeCalls =>
        /\ ctx_ws # NoSocket => readyState'[ctx_ws] # "OPEN"
        /\ \A k \in Calls : cTimer'[k] # "armed"
        /\ ~hasWs => /\ readyState' = readyState
                     /\ ctx_ws' = ctx_ws
                     /\ sendVars' = sendVars
    ]_vars

\* C13: a call on the line transport of a name that is not registered is
\* answered at once with an isError result whose text quotes that name; no
\* handler runs for it, so it starts no send, arms no timer and writes no
\* frame.
C13_UnknownToolOnLine ==
  \A k \in Calls :
    (rEp[k] = "line" /\ rName[k] \notin ToolNames) =>
      /\ rState[k] = "done"
      /\ rResp[k].kind = "result"
      /\ rResp[k].isError
      /\ rResp[k].content = NotFoundText(rName[k])
      /\ cState[k] = "new" /\ cTimer[k] = "none" /\ cWrite[k] = "none"
      /\ \A s \in Sockets : \A i \in 1..Len(wire[s]) : wire[s][i].type # rName[k]

C13_Witness ==
  \E j, k \in Calls :
    /\ rEp[j] = "line" /\ rName[j] = "foo_bar" /\ rState[j] = "done"
    /\ rEp[k] = "line" /\ rName[k] = "" /\ rState[k] = "done"
    /\ rResp[j].content # rResp[k].content
    /\ hasWs

\* C14: on the line transport a send that failed inside a tool handler
\* (NoConnection, Timeout, a write error) is answered with an isError result
\* whose text is the failure converted to a string; the request handler
\* returns, it does not throw.
C14_HandlerFailureIsCaught ==
  \A k \in Calls :
    (rEp[k] = "line" /\ cState[k] = "rejected") =>
      /\ rState[k] = "done"
      /\ rResp[k].kind = "result"
      /\ rResp[k].isError
      /\ rResp[k].content = ErrorString(cResult[k])

C14_Witness ==
  \E j, k \in Calls :
    /\ rEp[j] = "line" /\ cResult[j] = "NoConnection" /\ rResp[j].isError
    /\ rEp[k] = "line" /\ cResult[k] = "Timeout" /\ rResp[k].isError

\* C15: over HTTP a call of a registered tool whose handler ran and failed
\* is answered with a JSON-RPC result holding an isError tool result, not
\* with a JSON-RPC error.
C15_HandlerFailureIsResultOnHttp ==
  \A k \in Calls :
    (rEp[k] = "mcp" /\ rState[k] = "done" /\ rName[k] \in ToolNames
       /\ cState[k] = "rejected") =>
      (rResp[k].kind = "result" /\ rResp[k].isError)

\* A JSON-RPC 2.0 request for this method on a route that serves it.
PostOf(req, method) ==
  /\ req.verb = "POST"
  /\ req.body.present
  /\ req.body.jsonrpc = "2.0"
  /\ req.body.method = method
  /\ req.ep \in {"/mcp", "/" \o method}

\* C16: an HTTP tools/call without params.name (or without params) is
\* answered with error -32602 whatever the state of the connection, and its
\* handler is never started.
C16_MissingNameIsInvalidParams ==
  (qState # "idle" /\ PostOf(qReq, "tools/call")
     /\ ParamsName(qReq.body.params) = Absent) =>
    /\ qState = "done"
    /\ qResp.kind = "error"
    /\ qResp.code = -32602
    /\ qResp.side = "none"

\* ... answered so on /tools/call while an agent is connected.
C16_Witness ==
  /\ qState = "done"
  /\ PostOf(qReq, "tools/call")
  /\ ParamsName(qReq.body.params) = Absent
  /\ qReq.ep = "/tools/call"
  /\ qResp.code = -32602
  /\ hasWs

\* C17: a POST to /mcp whose body has a wrong or missing protocol tag, or
\* no method, is answered with error -32600, and with id null when the body
\* gives no id.
C17_MalformedEnvelopeIsInvalidRequest ==
  (qState = "done" /\ qReq.ep = "/mcp" /\ qReq.verb = "POST"
     /\ (~qReq.body.present \/ qReq.body.jsonrpc # "2.0"
           \/ qReq.body.method = Absent)) =>
    /\ qResp.kind = "error"
    /\ qResp.code = -32600
    /\ qReq.body.id = Absent => qResp.id = Null

\* C18: a JSON-RPC answer, result or error, carries the id of the request
\* body unchanged, whether that id is a number (0 included), a string (the
\* empty one included) or null.
C18_IdEchoedVerbatim ==
  (qState = "done" /\ qReq.verb = "POST" /\ qReq.body.present
     /\ qReq.body.id # Absent /\ qResp.kind \in {"result", "error"}) =>
    qResp.id = qReq.body.id

\* The methods the switch of /mcp has a case for.
KnownMethods ==
  {"initialize", "tools/list", "tools/call", "ping",
   "notifications/initialized"}

\* C19: a JSON-RPC 2.0 POST to /mcp that names a method outside the five
\* known ones is answered in the same step with error -32601, whatever the
\* state of the connection, and the step changes nothing but the exchange
\* itself.
C19_UnknownMethodNotFound ==
  [][ (qState = "idle" /\ qState' # "idle"
         /\ qReq'.ep = "/mcp" /\ qReq'.verb = "POST"
         /\ qReq'.body.present /\ qReq'.body.jsonrpc = "2.0"
         /\ qReq'.body.method \notin KnownMethods \cup {Absent}) =>
        /\ qState' = "done"
        /\ qResp'.kind = "error"
        /\ qResp'.code = -32601
        /\ qResp'.side = "none"
        /\ UNCHANGED << connVars, reqVars, sendVars, envVars, lifeVars >>
    ]_vars

C19_Witness ==
  /\ qState = "done"
  /\ qReq.ep = "/mcp" /\ qReq.verb = "POST"
  /\ qReq.body.jsonrpc = "2.0"
  /\ qReq.body.method = "resources/list"
  /\ qResp.code = -32601
  /\ hasWs

\* C20: initialize, tools/list and ping posted to /mcp in JSON-RPC 2.0 are
\* answered in the same step with a result that depends on the method
\* alone, with or without an agent and after one has gone, and the step
\* leaves the connection as it was.
C20_StaticMethodsAlwaysSucceed ==
  [][ \A m \in {"initialize", "tools/list", "ping"} :
        (qState = "idle" /\ qState' # "idle" /\ qReq'.ep = "/mcp"
           /\ PostOf(qReq', m)) =>
          /\ qState' = "done"
          /\ qResp'.kind = "result"
          /\ ~qResp'.isError
          /\ qResp'.content =
               (CASE m = "initialize" -> "initialize"
                  [] m = "tools/list" -> ListTools(snapshotTools)
                  [] OTHER -> "{}")
          /\ UNCHANGED << connVars, sendVars >>
    ]_vars

\* ... tools/list answered after the only agent has disconnected.
C20_Witness ==
  /\ qState = "done"
  /\ qReq.ep = "/mcp"
  /\ PostOf(qReq, "tools/list")
  /\ qResp.kind = "result"
  /\ ctx_ws = NoSocket
  /\ \E s \in Sockets : readyState[s] = "CLOSED"

\* The exchange in view is an answered tools/list on one of its three entry
\* points.
ListAnswered ==
  /\ qState = "done"
  /\ qReq.body.method = "tools/list"
  /\ \/ qReq.ep = "line"
     \/ qReq.ep \in {"/mcp", "/tools/list"} /\ PostOf(qReq, "tools/list")

\* C21: an answered tools/list, on /mcp, /tools/list or the line transport,
\* lists the registered tools, each once, in registration order, whatever
\* connection events and calls came before.
C21_ToolsListIsTheRegistry ==
  ListAnswered =>
    /\ qResp.kind = "result"
    /\ qResp.content = "tools:" \o JoinNames(snapshotTools)
    /\ \A i, j \in 1..Len(snapshotTools) :
         snapshotTools[i] = snapshotTools[j] => i = j

\* ... on /tools/list after an agent was replaced by a second one.
C21_Witness ==
  /\ ListAnswered
  /\ qReq.ep = "/tools/list"
  /\ \E s \in Sockets : prev[s] # NoSocket /\ ctx_ws = s

\* A resources/read request on the line transport has been answered.
ReadAnswered ==
  /\ qState = "done"
  /\ qReq.ep = "line"
  /\ qReq.body.method = "resources/read"

\* C24: a resource read on the line transport whose uri matches no
\* registered resource is answered with a result holding an empty contents
\* list, never with an error, and no resource's read operation is invoked.
C24_UnknownResourceReadsEmpty ==
  (ReadAnswered /\ \A i \in 1..Len(resources) :
                     resources[i] # qReq.body.params.uri)
    => /\ qResp.kind = "result"
       /\ qResp.content = "contents:"
       /\ qResp.side = "none"

C24_Witness ==
  /\ ReadAnswered
  /\ qReq.body.params.uri = "browser://console"
  /\ qResp.kind = "result"
  /\ qResp.content = "contents:"

\* C25: a JSON-RPC 2.0 notifications/initialized posted to /mcp is
\* acknowledged in the same step with HTTP 204 and an empty body (no result,
\* no error, no id), with or without an agent and after one has gone, and
\* the step changes nothing but the exchange itself.
C25_InitializedNotificationIsEmpty ==
  [][ (qState = "idle" /\ qState' # "idle"
         /\ qReq'.ep = "/mcp" /\ PostOf(qReq', "notifications/initialized")) =>
        /\ qState' = "done"
        /\ qResp' = [NoReply EXCEPT !.status = 204, !.kind = "empty"]
        /\ UNCHANGED << connVars, reqVars, sendVars, envVars, lifeVars >>
    ]_vars

C25_Witness ==
  /\ qState = "done"
  /\ qReq.ep = "/mcp" /\ PostOf(qReq, "notifications/initialized")
  /\ qReq.body.id = "n:1"
  /\ qResp.status = 204 /\ qResp.kind = "empty" /\ qResp.id = Absent
  /\ \E s \in Sockets : readyState[s] = "CLOSED" /\ ~hasWs

\* An HTTP tools/call with a well-formed envelope that names a tool is in
\* view.
NamedCall ==
  /\ qState # "idle"
  /\ PostOf(qReq, "tools/call")
  /\ ParamsName(qReq.body.params) \notin {Absent, ""}

C26_HealthReportsConnection ==
  [][ (qState = "idle" /\ qState' = "done" /\ qReq'.ep = "/health") =>
        qResp'.content = HealthText(hasWs)
    ]_vars

\* C22: an HTTP tools/call for a registered tool that is issued while the
\* agent's socket is the open current one is run against that connection:
\* its handler is given the Context holding the agent's socket and suspends
\* on its send, it is not handed a Context without a socket.
C22_HttpCallsShareTheConnection ==
  [][ (qState = "idle" /\ qState' # "idle"
         /\ PostOf(qReq', "tools/call")
         /\ ParamsName(qReq'.body.params) \in ToolNames
         /\ hasWs) =>
        /\ ContextWs = ctx_ws
        /\ qState' = "handling"
    ]_vars

\* Every answered POST to a JSON-RPC route, the initialized notification
\* apart, carries one envelope: a result or an error.
WellFormedAnswers ==
  (/\ qState = "done"
   /\ qReq.verb = "POST"
   /\ ~(qReq.ep = "/mcp" /\ PostOf(qReq, "notifications/initialized")))
    => qResp.kind \in {"result", "error"}

\* C23: every answered HTTP tools/call carries one envelope, a result or an
\* error; a call whose handler faulted is answered with error -32603, and
\* the fault of one call leaves the others as their own sends decide: a call
\* whose send resolved is answered with its result, a call whose send is
\* pending is still being handled.
C23_FaultsAreInternalErrors ==
  \A k \in Calls :
    /\ (rEp[k] = "mcp" /\ rState[k] = "done") =>
         /\ rResp[k].kind \in {"result", "error"}
         /\ cState[k] = "rejected" =>
              (rResp[k].kind = "error" /\ rResp[k].code = -32603)
         /\ cState[k] = "resolved" =>
              rResp[k] = createJsonRpcSuccess(ToolHandleResult(cResult[k]))
    /\ (rEp[k] = "mcp" /\ rState[k] = "handling") =>
         (cState[k] = "pending" /\ rResp[k] = NoResp)

C23_Witness ==
  /\ deploy = "http_v2"
  /\ rState[1] = "done" /\ cState[1] = "rejected" /\ rResp[1].code = -32603
  /\ rState[2] = "done" /\ cState[2] = "resolved" /\ rResp[2].kind = "result"
  /\ cSock[1] = cSock[2]

\* C28: once socket b has replaced an open current socket, b stays the
\* current connection for as long as it is open and no later socket has
\* connected, whatever happens to the socket it replaced: the close event of
\* the replaced socket does not clear the slot.
C28_StaleCloseKeepsTheSlot ==
  \A b \in Sockets :
    (/\ prev[b] # NoSocket
     /\ readyState[b] = "OPEN"
     /\ \A t \in Sockets : t > b => readyState[t] = "NONE")
      => (ctx_ws = b /\ hasWs)

\* C30: every call of server.close on the line transport returns having
\* closed the protocol server, then the websocket server, then the Context,
\* in that order and each once; this holds of a second call too.
C30_CloseClosesAllThreeInOrder ==
  [][ (closeLog' # closeLog /\ deploy \in {"stdio_v1", "stdio_v2"}) =>
        closeLog' = closeLog \o << "mcp", "wss", "context" >>
    ]_vars

\* The exchange in view has as many responses as its state says: none
\* before its answer, one from then on.
OneResponse ==
  qSent = IF qState = "done" THEN 1 ELSE 0

C31_CloseSparesWhatWasPassedIn ==
  [][ closeLog' # closeLog =>
        /\ options.websocketServer =>
             (wssUp' = wssUp /\ \A i \in 1..Len(closeLog') : closeLog'[i] # "wss")
        /\ options.context =>
             /\ << readyState, ctx_ws, closeInstr >>' = << readyState, ctx_ws, closeInstr >>
             /\ \A i \in 1..Len(closeLog') : closeLog'[i] # "context"
        /\ ~options.websocketServer => ~wssUp'
        /\ (~options.context /\ hasWs) =>
             (readyState'[ctx_ws] # "OPEN" /\ ctx_ws \in closeInstr')
    ]_vars

C31_Witness ==
  /\ options.websocketServer /\ options.context
  /\ closeCalls = 1
  /\ closeLog = << "mcp" >>
  /\ hasWs
  /\ wssUp

\* C32: answering an HTTP request creates neither a Context nor a websocket
\* server: the request's handling has no such side effect and the set of
\* listening websocket servers is as before.
C32_RequestsCreateNoResources ==
  [][ (qState = "idle" /\ qState' # "idle" /\ qReq'.ep \in Routes) =>
        (qResp'.side = "none" /\ wssUp' = wssUp)
    ]_vars

\* The urls whose path, without the query string, is /ws.
WsUrls ==
  { << "/", "w", "s" >>,
    << "/", "w", "s", "?", "t", "=", "1" >>,
    << "/", "w", "s", "?" >> }

\* C33: an upgrade request on the HTTP server leads to a connection event
\* only if its url, query string removed, is /ws; for any other url the
\* socket is destroyed and the sockets and the current connection stay as
\* they were.
C33_OnlyTheWsPathConnects ==
  [][ upgrade'.n # upgrade.n =>
        /\ upgrade'.outcome = "connection" => upgrade'.url \in WsUrls
        /\ upgrade'.url \notin WsUrls =>
             (upgrade'.outcome = "destroyed" /\ UNCHANGED connVars)
        /\ readyState' # readyState => upgrade'.outcome = "connection"
    ]_vars

C33_Witness ==
  /\ upgrade.outcome = "destroyed"
  /\ upgrade.url = << "/", "w", "s", "x" >>
  /\ hasWs
  /\ upgrade.n = 2

\* C34: once the line transport's input has closed the process ends with
\* exit code 0, whether server.close() returns, hangs or fails.
C34_ExitsWithCodeZero ==
  (proc = "closing") ~> (proc = "exit0")

\* C35: a send settles once.  While its timer is armed it is pending; when
\* the write callback came first the timer is cleared and the outcome is the
\* callback's (success, or the write error) and stays so after timeoutMs;
\* when the timer came first the outcome is the timeout and stays so after
\* the write callback has run.
C35_SendSettlesOnce ==
  \A k \in Calls :
    /\ cTimer[k] = "armed" <=> cState[k] = "pending"
    /\ cTimer[k] = "cleared" =>
         /\ cWrite[k] \in {"done", "refused"}
         /\ \/ cState[k] = "resolved" /\ cResult[k] = "success"
            \/ cState[k] = "rejected" /\ cResult[k] = "WriteError"
    /\ cTimer[k] = "fired" =>
         (cState[k] = "rejected" /\ cResult[k] = "Timeout")

C35_Witness ==
  \E k \in Calls :
    /\ cTimer[k] = "fired"
    /\ cWrite[k] = "done"
    /\ readyState[cSock[k]] = "OPEN"
    /\ cResult[k] = "Timeout"

====
